---- MODULE Spec2Model ----
(***************************************************************************)
(* Model of src/index.js: the Pokemon Showdown -> Discord tournament       *)
(* bridge.  The state is the module-level state of index.js (currentRoom,  *)
(* activeTournaments), the messages held by the Discord channel, and the   *)
(* position and locals of every in-flight async callback: one per received *)
(* websocket frame (ws.on("message")) and the setInterval auto-cleanup.    *)
(*                                                                         *)
(* JavaScript runs one callback at a time and a callback gives up control  *)
(* only at an await.  `running` names the callback that holds the thread;  *)
(* a callback that is suspended at an await resumes only when nobody runs. *)
(*                                                                         *)
(* A line is the sequence of its '|'-separated fields (line.split("|")),   *)
(* so "|tournament|create|gen9ou" is <<"", "tournament", "create",         *)
(* "gen9ou">>; a room marker ">ou" is <<">", "ou">> (the sentinel and      *)
(* line.slice(1)); the empty line is <<>>.                                 *)
(*                                                                         *)
(* Time is counted in units of 15 minutes.                                 *)
(***************************************************************************)
EXTENDS Integers, Sequences, FiniteSets, TLC

\* ------------------------------------------------------------------ bounds
MaxHandlers == 2      \* frames whose handlers may be in flight at once
MaxFrames == 3        \* frames delivered in one run
MaxEvents == 1        \* lines of a frame after its optional room marker
MaxClock == 2         \* last instant of the clock
MaxQueries == 2       \* interactions received in one run

\* --------------------------------------------------------------- constants
MAX_TOURNAMENT_AGE == 2   \* 30 minutes, in units of 15 minutes

Null == "<null>"      \* JavaScript null (currentRoom before any marker)

Rooms == {"ou", "lobby"}

Handlers == 1..MaxHandlers

Payloads ==
  { "{bad",
    "{}",
    "{\"results\":[]}",
    "{\"results\":[[\"Alice\"],[\"Bob\"]]}" }

EmptyLine == <<>>
MarkerLine(r) == <<">", r>>
CreateLines ==
  { <<"", "tournament", "create", "gen9ou", "Elimination", "8", "Gen9OU Cup">>,
    <<"", "tournament", "create", "gen9ou", "Elimination", "8", "">>,
    <<"", "tournament", "create", "gen9ou", "Elimination", "8">> }
EndLine(p) == <<"", "tournament", "end", p>>
ForceEndLine == <<"", "tournament", "forceend">>
ExpireLine == <<"", "tournament", "expire">>
OtherLine == <<"", "tournament", "update", "{}">>

\* the lines of the feed that are not room markers
Lines ==
  {EmptyLine, OtherLine, ForceEndLine, ExpireLine}
    \cup CreateLines
    \cup {EndLine(p) : p \in Payloads}

Markers == {MarkerLine(r) : r \in Rooms \cup {""}}

RECURSIVE SeqsUpTo(_, _)
SeqsUpTo(S, n) ==
  IF n = 0 THEN {<<>>}
  ELSE LET shorter == SeqsUpTo(S, n - 1)
       IN shorter \cup {Append(q, x) : q \in shorter, x \in S}

\* a frame of the feed: an optional room marker, then the room's lines
FramesOf(markers, lines) ==
  {m \o e : m \in {<<>>} \cup {<<x>> : x \in markers},
            e \in SeqsUpTo(lines, MaxEvents)} \ {<<>>}

Frames == FramesOf(Markers, Lines)

\* ------------------------------------------------------------------- state
VARIABLES
  currentRoom,        \* let currentRoom
  activeTournaments,  \* the Map, as its entries in insertion order
  messages,           \* the channel's open announcements; the id is the index
  clock,              \* Date.now()
  handlers,           \* the in-flight ws.on("message") callbacks
  sweep,              \* the setInterval callback
  running,            \* who holds the thread: <<"none",0>>, <<"h",i>>, <<"s",0>>
  delivered,          \* frames received so far
  audit,              \* history, per announcement id: which line sent it and
                      \* what was later attempted on it
  interaction,        \* the in-flight interactionCreate callback
  escaped             \* history: errors that left a callback uncaught

queryVars == <<interaction, escaped>>

vars == <<currentRoom, activeTournaments, messages, clock, handlers, sweep,
          running, delivered, audit, interaction, escaped>>

NoOne == <<"none", 0>>
H(h) == <<"h", h>>
S == <<"s", 0>>

NoTour == [room |-> "", format |-> "", name |-> "", messageId |-> 0, startTime |-> 0]
NoText == [name |-> "", room |-> ""]
NoResults == [isNull |-> TRUE, items |-> <<>>]

IdleHandler ==
  [pc |-> "idle", rest |-> <<>>, line |-> <<>>, format |-> "", name |-> "",
   tour |-> NoTour,
   results |-> NoResults, text |-> NoText,
   lroom |-> Null,     \* history: the room cursor when the current line started
   last |-> ""]        \* history: how the line just processed ended

IdleSweep ==
  [pc |-> "idle", now |-> 0, idx |-> 0, room |-> "", tour |-> NoTour,
   evicted |-> 0]      \* history: the evictions of this pass so far

\* the content of a reply: the fixed message, or the header and the bullets
NoActive == [fixed |-> TRUE, bullets |-> <<>>]
NoReply == [fixed |-> FALSE, bullets |-> <<>>]
NoInteraction == [pc |-> "idle", content |-> NoReply, asked |-> 0]

\* ------------------------------------------------------------- Map helpers
Has(m, k) == \E i \in 1..Len(m) : m[i].key = k
IndexOf(m, k) == CHOOSE i \in 1..Len(m) : m[i].key = k
\* Faulty variant: the lookup ignores its key
GetAny(m, k) == IF Len(m) > 0 THEN m[1].value ELSE NoTour
Get(m, k) == IF Has(m, k) THEN m[IndexOf(m, k)].value ELSE NoTour
MapSet(m, k, v) ==
  IF Has(m, k) THEN [m EXCEPT ![IndexOf(m, k)].value = v]
  ELSE Append(m, [key |-> k, value |-> v])
MapDelete(m, k) ==
  IF Has(m, k)
  THEN LET i == IndexOf(m, k) IN SubSeq(m, 1, i - 1) \o SubSeq(m, i + 1, Len(m))
  ELSE m
\* Faulty variant: an iterator that is not live keeps its index
IterKeepsIndex(idx, m, k) == idx
\* a live Map iterator that has passed idx entries, after key k is deleted
IterAfterDelete(idx, m, k) ==
  IF Has(m, k) /\ IndexOf(m, k) <= idx THEN idx - 1 ELSE idx

Truthy(room) == room /= Null /\ room /= ""

\* ------------------------------------------------------------ line parsing
IsMarker(l) == Len(l) >= 1 /\ l[1] = ">"
StartsWithCreate(l) ==
  Len(l) >= 4 /\ l[1] = "" /\ l[2] = "tournament" /\ l[3] = "create"
StartsWithEnd(l) ==
  Len(l) >= 4 /\ l[1] = "" /\ l[2] = "tournament" /\ l[3] = "end"
StartsWithForceOrExpire(l) ==
  Len(l) >= 3 /\ l[1] = "" /\ l[2] = "tournament" /\ l[3] \in {"forceend", "expire"}

\* parts[i] of JavaScript is l[i + 1]
Format(l) == l[4]
Name(l) == IF Len(l) >= 7 THEN l[7] ELSE Format(l)

\* JSON.parse of a payload: threw (SyntaxError), or the parsed object's
\* `results` member (absent: undefined)
JSONParse(p) ==
  CASE p = "{}" -> [threw |-> FALSE, hasResults |-> FALSE, results |-> <<>>]
    [] p = "{\"results\":[]}" -> [threw |-> FALSE, hasResults |-> TRUE, results |-> <<>>]
    [] p = "{\"results\":[[\"Alice\"],[\"Bob\"]]}" ->
         [threw |-> FALSE, hasResults |-> TRUE,
          results |-> << <<"Alice">>, <<"Bob">> >>]
    [] OTHER -> [threw |-> TRUE, hasResults |-> FALSE, results |-> <<>>]

\* let results = null; try { results = JSON.parse(line.slice(16))?.results ?? null } catch {}
ParseResults(l) ==
  LET j == JSONParse(l[4])
  IN IF j.threw \/ ~j.hasResults THEN NoResults
     ELSE [isNull |-> FALSE, items |-> j.results]

\* results?.length
HasResults(r) == ~r.isNull /\ Len(r.items) > 0

\* ------------------------------------------------------------------- Init
Init ==
  /\ currentRoom = Null
  /\ activeTournaments = <<>>
  /\ messages = <<>>
  /\ clock = 0
  /\ handlers = [h \in Handlers |-> IdleHandler]
  /\ sweep = IdleSweep
  /\ running = NoOne
  /\ delivered = 0
  /\ audit = <<>>
  /\ interaction = NoInteraction
  /\ escaped = 0

\* --------------------------------------------------------- shared pieces
\* `continue`, or the end of the loop body: on to the next line of the frame
NextLine(hd, how) ==
  [IdleHandler EXCEPT !.pc = "line", !.rest = Tail(hd.rest), !.last = how]

\* the current line is handed to an await: the callback leaves the thread
Suspend(hd, pc) ==
  [hd EXCEPT !.pc = pc, !.line = Head(hd.rest), !.rest = Tail(hd.rest), !.last = ""]

\* after an await: the current line is done, the loop goes on
Resume(hd, how) == [IdleHandler EXCEPT !.pc = "line", !.rest = hd.rest, !.last = how]

\* activeTournaments.delete(k), seen by the sweep's live iterator too
Deleted(k) == MapDelete(activeTournaments, k)
SweepAfterDelete(sw, k) ==
  [sw EXCEPT !.idx = IterAfterDelete(@, activeTournaments, k)]

AtLine(h) ==
  /\ running = H(h)
  /\ handlers[h].pc = "line"
  /\ handlers[h].rest /= <<>>

Awaiting(h, pc) ==
  /\ running = NoOne
  /\ handlers[h].pc = pc

\* --------------------------------------------------------------- the feed
\* ws emits "message": the callback starts on the frame's first line
Deliver(h, f) ==
  /\ running = NoOne
  /\ delivered < MaxFrames
  /\ handlers[h].pc = "idle"
  /\ \A g \in Handlers : g < h => handlers[g].pc /= "idle"
  /\ handlers' = [handlers EXCEPT ![h] = [IdleHandler EXCEPT !.pc = "line", !.rest = f]]
  /\ running' = H(h)
  /\ delivered' = delivered + 1
  /\ UNCHANGED <<currentRoom, activeTournaments, messages, clock, sweep, audit>>
  /\ UNCHANGED queryVars

\* the for loop is over: the callback returns
Return(h) ==
  /\ running = H(h)
  /\ handlers[h].pc = "line"
  /\ handlers[h].rest = <<>>
  /\ handlers' = [handlers EXCEPT ![h] = IdleHandler]
  /\ running' = NoOne
  /\ UNCHANGED <<currentRoom, activeTournaments, messages, clock, sweep, delivered, audit>>
  /\ UNCHANGED queryVars

\* if (!line) continue
SkipEmpty(h) ==
  /\ AtLine(h)
  /\ Head(handlers[h].rest) = EmptyLine
  /\ handlers' = [handlers EXCEPT ![h] = NextLine(@, "empty")]
  /\ UNCHANGED <<currentRoom, activeTournaments, messages, clock, sweep, running,
                 delivered, audit>>
  /\ UNCHANGED queryVars

\* if (line.startsWith(">")) { currentRoom = line.slice(1); continue }
RoomContext(h) ==
  /\ AtLine(h)
  /\ LET l == Head(handlers[h].rest)
     IN /\ IsMarker(l)
        /\ currentRoom' = l[2]
  /\ handlers' = [handlers EXCEPT ![h] = NextLine(@, "marker")]
  /\ UNCHANGED <<activeTournaments, messages, clock, sweep, running, delivered, audit>>
  /\ UNCHANGED queryVars

\* Faulty variant: the duplicate check is missing
NeverDuplicate(room) == FALSE

\* if (activeTournaments.has(currentRoom)) continue
IsDuplicate(room) == Has(activeTournaments, room)

\* the create branch up to `await getDiscordChannel()`
TournamentCreated(h) ==
  /\ AtLine(h)
  /\ LET l == Head(handlers[h].rest)
     IN /\ ~IsMarker(l)
        /\ StartsWithCreate(l)
        /\ Truthy(currentRoom)
        /\ IF IsDuplicate(currentRoom)
           THEN /\ handlers' = [handlers EXCEPT ![h] = NextLine(@, "duplicate")]
                /\ running' = running
           ELSE /\ handlers' = [handlers EXCEPT ![h] =
                       [Suspend(@, "c_fetch") EXCEPT !.format = Format(l),
                                                     !.name = Name(l),
                                                     !.lroom = currentRoom]]
                /\ running' = NoOne
  /\ UNCHANGED <<currentRoom, activeTournaments, messages, clock, sweep, delivered, audit>>
  /\ UNCHANGED queryVars

\* the end branch up to `await getDiscordChannel()`
TournamentEnded(h) ==
  /\ AtLine(h)
  /\ LET l == Head(handlers[h].rest)
         tour == Get(activeTournaments, currentRoom)
     IN /\ ~IsMarker(l)
        /\ StartsWithEnd(l)
        /\ IF tour = NoTour
           THEN /\ handlers' = [handlers EXCEPT ![h] = NextLine(@, "no-match")]
                /\ running' = running
           ELSE /\ handlers' = [handlers EXCEPT ![h] =
                       [Suspend(@, "e_fetch") EXCEPT !.tour = tour,
                                                     !.results = ParseResults(l),
                                                     !.lroom = currentRoom]]
                /\ running' = NoOne
  /\ UNCHANGED <<currentRoom, activeTournaments, messages, clock, sweep, delivered, audit>>
  /\ UNCHANGED queryVars

\* the forceend / expire branch up to `await getDiscordChannel()`
ForceOrExpire(h) ==
  /\ AtLine(h)
  /\ LET l == Head(handlers[h].rest)
         tour == Get(activeTournaments, currentRoom)
     IN /\ ~IsMarker(l)
        /\ StartsWithForceOrExpire(l)
        /\ IF tour = NoTour
           THEN /\ handlers' = [handlers EXCEPT ![h] = NextLine(@, "no-match")]
                /\ running' = running
           ELSE /\ handlers' = [handlers EXCEPT ![h] =
                       [Suspend(@, "f_fetch") EXCEPT !.tour = tour,
                                                     !.lroom = currentRoom]]
                /\ running' = NoOne
  /\ UNCHANGED <<currentRoom, activeTournaments, messages, clock, sweep, delivered, audit>>
  /\ UNCHANGED queryVars

\* a line no branch takes: the loop body falls through
Unclassified(h) ==
  /\ AtLine(h)
  /\ LET l == Head(handlers[h].rest)
     IN /\ l /= EmptyLine
        /\ ~IsMarker(l)
        /\ ~(StartsWithCreate(l) /\ Truthy(currentRoom))
        /\ ~StartsWithEnd(l)
        /\ ~StartsWithForceOrExpire(l)
  /\ handlers' = [handlers EXCEPT ![h] = NextLine(@, "ignored")]
  /\ UNCHANGED <<currentRoom, activeTournaments, messages, clock, sweep, running,
                 delivered, audit>>
  /\ UNCHANGED queryVars

\* ------------------------------------------------- history (not program state)
\* A callback attempts a sink operation when it has fetched, or failed to
\* fetch, the channel for it; the attempt may then fail at any later call.
NoAudit ==
  [origin |-> Null, summary |-> 0, finished |-> 0, notified |-> 0, retracts |-> 0,
   ended |-> 0, swept |-> 0, sweptAt |-> 0]
\* an end notification of this kind for announcement id is attempted
NoteSend(a, id, kind) ==
  IF kind = "summary" THEN [a EXCEPT ![id].summary = @ + 1]
  ELSE [a EXCEPT ![id].finished = @ + 1]
\* channel.send of an end notification for announcement id returned
NoteNotified(a, id) == [a EXCEPT ![id].notified = @ + 1]
\* a retraction of announcement id is attempted
NoteRetract(a, id) == [a EXCEPT ![id].retracts = @ + 1]
\* the end branch that matched announcement id has run to its last statement
NoteEnded(a, id) == [a EXCEPT ![id].ended = @ + 1]
\* the sweep pass of instant now has evicted the record of announcement id
NoteSwept(a, id, now) == [a EXCEPT ![id].swept = @ + 1, ![id].sweptAt = now]

\* what the Discord channel allows: a message can be fetched or deleted only
\* while it exists; any call may fail
MayFetch(id, ok) == ok => messages[id].live
MayDelete(id, ok) == ok => messages[id].live

\* --------------------------------------------------------- create, resumed
\* the text of the open announcement: name and room as read at the call
OpenText(name, room) == [name |-> name, room |-> room]

\* `const channel = await getDiscordChannel()` returns; null: continue;
\* else channel.send(...) is called with the text built now
CreateGotChannel(h, ok) ==
  /\ Awaiting(h, "c_fetch")
  /\ IF ok
     THEN /\ handlers' = [handlers EXCEPT ![h] =
                 [@ EXCEPT !.pc = "c_send",
                            !.text = OpenText(handlers[h].name, currentRoom)]]
          /\ running' = NoOne
     ELSE /\ handlers' = [handlers EXCEPT ![h] = Resume(@, "no-channel")]
          /\ running' = H(h)
  /\ UNCHANGED <<currentRoom, activeTournaments, messages, clock, sweep, delivered, audit>>
  /\ UNCHANGED queryVars

\* the record of activeTournaments.set(currentRoom, {...})
NewRecord(hd, id) ==
  [room |-> currentRoom, format |-> hd.format, name |-> hd.name,
   messageId |-> id, startTime |-> clock]

\* Faulty variant: the catch does not `continue`
StoresAlways(ok) == TRUE

\* whether activeTournaments.set is reached: the catch's `continue` skips it
StoresRecord(ok) == ok

\* `sent = await channel.send(...)` returns or throws; on success the record
\* is stored under the room cursor as it is now
CreateSent(h, ok) ==
  /\ Awaiting(h, "c_send")
  /\ messages' = IF ok
                 THEN Append(messages, [name |-> handlers[h].text.name,
                                        room |-> handlers[h].text.room, live |-> TRUE])
                 ELSE messages
  /\ audit' = IF ok THEN Append(audit, [NoAudit EXCEPT !.origin = handlers[h].lroom])
              ELSE audit
  /\ activeTournaments' =
       IF StoresRecord(ok)
       THEN MapSet(activeTournaments, currentRoom,
                   NewRecord(handlers[h], Len(messages) + 1))
       ELSE activeTournaments
  /\ handlers' = [handlers EXCEPT ![h] =
                    Resume(@, IF ok THEN "opened" ELSE "announce-failed")]
  /\ running' = H(h)
  /\ UNCHANGED <<currentRoom, clock, sweep, delivered>>
  /\ UNCHANGED queryVars

\* ------------------------------------------------------------ end, resumed
\* which end notification is composed
EndMessage(results) == IF HasResults(results) THEN "summary" ELSE "finished"

\* the key of `activeTournaments.delete(currentRoom)` at the end of a
\* termination branch
CleanupKey(hd) == currentRoom

\* `const channel = await getDiscordChannel()` returns in the end branch
EndGotChannel(h, ok) ==
  /\ Awaiting(h, "e_fetch")
  /\ IF ok
     THEN /\ audit' = NoteSend(audit, handlers[h].tour.messageId,
                                EndMessage(handlers[h].results))
          /\ handlers' = [handlers EXCEPT ![h].pc = "e_send"]
          /\ running' = NoOne
          /\ UNCHANGED <<activeTournaments, sweep>>
     ELSE /\ activeTournaments' = Deleted(CleanupKey(handlers[h]))
          /\ sweep' = SweepAfterDelete(sweep, CleanupKey(handlers[h]))
          /\ handlers' = [handlers EXCEPT ![h] = Resume(@, "ended")]
          /\ running' = H(h)
          /\ audit' = NoteEnded(
                         NoteRetract(
                           NoteSend(audit, handlers[h].tour.messageId,
                                    EndMessage(handlers[h].results)),
                           handlers[h].tour.messageId),
                         handlers[h].tour.messageId)
  /\ UNCHANGED <<currentRoom, messages, clock, delivered>>
  /\ UNCHANGED queryVars

\* `await channel.send(msg)` returns or throws (caught, logged); either way
\* channel.messages.fetch(tour.messageId) is called next
EndSent(h, ok) ==
  /\ Awaiting(h, "e_send")
  /\ audit' = NoteRetract(IF ok THEN NoteNotified(audit, handlers[h].tour.messageId)
                          ELSE audit,
                          handlers[h].tour.messageId)
  /\ handlers' = [handlers EXCEPT ![h].pc = "e_mfetch"]
  /\ UNCHANGED <<currentRoom, activeTournaments, messages, clock, sweep, running,
                 delivered>>
  /\ UNCHANGED queryVars

\* `await channel.messages.fetch(...)` returns (m.delete() is called) or
\* throws (caught: the entry is deleted)
EndFetched(h, ok) ==
  /\ Awaiting(h, "e_mfetch")
  /\ MayFetch(handlers[h].tour.messageId, ok)
  /\ IF ok
     THEN /\ handlers' = [handlers EXCEPT ![h].pc = "e_del"]
          /\ running' = NoOne
          /\ UNCHANGED <<activeTournaments, sweep, audit>>
     ELSE /\ audit' = NoteEnded(audit, handlers[h].tour.messageId)
          /\ activeTournaments' = Deleted(CleanupKey(handlers[h]))
          /\ sweep' = SweepAfterDelete(sweep, CleanupKey(handlers[h]))
          /\ handlers' = [handlers EXCEPT ![h] = Resume(@, "ended")]
          /\ running' = H(h)
  /\ UNCHANGED <<currentRoom, messages, clock, delivered>>
  /\ UNCHANGED queryVars

\* `await m.delete()` returns or throws (caught); the entry is deleted
EndDeleted(h, ok) ==
  /\ Awaiting(h, "e_del")
  /\ MayDelete(handlers[h].tour.messageId, ok)
  /\ messages' = IF ok THEN [messages EXCEPT ![handlers[h].tour.messageId].live = FALSE]
                 ELSE messages
  /\ activeTournaments' = Deleted(CleanupKey(handlers[h]))
  /\ sweep' = SweepAfterDelete(sweep, CleanupKey(handlers[h]))
  /\ handlers' = [handlers EXCEPT ![h] = Resume(@, "ended")]
  /\ running' = H(h)
  /\ audit' = NoteEnded(audit, handlers[h].tour.messageId)
  /\ UNCHANGED <<currentRoom, clock, delivered>>
  /\ UNCHANGED queryVars

\* ------------------------------------------------- forceend / expire, resumed
ForceGotChannel(h, ok) ==
  /\ Awaiting(h, "f_fetch")
  /\ audit' = NoteRetract(audit, handlers[h].tour.messageId)
  /\ IF ok
     THEN /\ handlers' = [handlers EXCEPT ![h].pc = "f_mfetch"]
          /\ running' = NoOne
          /\ UNCHANGED <<activeTournaments, sweep>>
     ELSE /\ activeTournaments' = Deleted(CleanupKey(handlers[h]))
          /\ sweep' = SweepAfterDelete(sweep, CleanupKey(handlers[h]))
          /\ handlers' = [handlers EXCEPT ![h] = Resume(@, "force-ended")]
          /\ running' = H(h)
  /\ UNCHANGED <<currentRoom, messages, clock, delivered>>
  /\ UNCHANGED queryVars

ForceFetched(h, ok) ==
  /\ Awaiting(h, "f_mfetch")
  /\ MayFetch(handlers[h].tour.messageId, ok)
  /\ IF ok
     THEN /\ handlers' = [handlers EXCEPT ![h].pc = "f_del"]
          /\ running' = NoOne
          /\ UNCHANGED <<activeTournaments, sweep>>
     ELSE /\ activeTournaments' = Deleted(CleanupKey(handlers[h]))
          /\ sweep' = SweepAfterDelete(sweep, CleanupKey(handlers[h]))
          /\ handlers' = [handlers EXCEPT ![h] = Resume(@, "force-ended")]
          /\ running' = H(h)
  /\ UNCHANGED <<currentRoom, messages, clock, delivered, audit>>
  /\ UNCHANGED queryVars

ForceDeleted(h, ok) ==
  /\ Awaiting(h, "f_del")
  /\ MayDelete(handlers[h].tour.messageId, ok)
  /\ messages' = IF ok THEN [messages EXCEPT ![handlers[h].tour.messageId].live = FALSE]
                 ELSE messages
  /\ activeTournaments' = Deleted(CleanupKey(handlers[h]))
  /\ sweep' = SweepAfterDelete(sweep, CleanupKey(handlers[h]))
  /\ handlers' = [handlers EXCEPT ![h] = Resume(@, "force-ended")]
  /\ running' = H(h)
  /\ UNCHANGED <<currentRoom, clock, delivered, audit>>
  /\ UNCHANGED queryVars

\* ------------------------------------------------------------ auto-cleanup
\* Faulty variant: the age test never finds an entry stale
NeverStale(now, tour) == FALSE

\* the negation of `now - tour.startTime < MAX_TOURNAMENT_AGE`
IsStale(now, tour) == ~(now - tour.startTime < MAX_TOURNAMENT_AGE)

\* setInterval fires: `const now = Date.now()` and the iteration starts.  A
\* pass is over before the interval fires again (CLEANUP_INTERVAL is 5
\* minutes; a Discord call gives up within seconds).
SweepTick ==
  /\ running = NoOne
  /\ sweep.pc = "idle"
  /\ sweep' = [IdleSweep EXCEPT !.pc = "iter", !.now = clock]
  /\ running' = S
  /\ UNCHANGED <<currentRoom, activeTournaments, messages, clock, handlers, delivered,
                 audit>>
  /\ UNCHANGED queryVars

SweepAt ==
  /\ running = S
  /\ sweep.pc = "iter"

\* the next entry is young: continue
SweepSkip ==
  /\ SweepAt
  /\ sweep.idx < Len(activeTournaments)
  /\ ~IsStale(sweep.now, activeTournaments[sweep.idx + 1].value)
  /\ sweep' = [sweep EXCEPT !.idx = @ + 1]
  /\ UNCHANGED <<currentRoom, activeTournaments, messages, clock, handlers, running,
                 delivered, audit>>
  /\ UNCHANGED queryVars

\* the next entry is stale: up to `await getDiscordChannel()`
SweepStale ==
  /\ SweepAt
  /\ sweep.idx < Len(activeTournaments)
  /\ LET e == activeTournaments[sweep.idx + 1]
     IN /\ IsStale(sweep.now, e.value)
        /\ sweep' = [sweep EXCEPT !.pc = "s_fetch", !.idx = @ + 1,
                                  !.room = e.key, !.tour = e.value]
  /\ running' = NoOne
  /\ UNCHANGED <<currentRoom, activeTournaments, messages, clock, handlers, delivered,
                 audit>>
  /\ UNCHANGED queryVars

\* the iteration is over
SweepReturn ==
  /\ SweepAt
  /\ sweep.idx >= Len(activeTournaments)
  /\ sweep' = IdleSweep
  /\ running' = NoOne
  /\ UNCHANGED <<currentRoom, activeTournaments, messages, clock, handlers, delivered,
                 audit>>
  /\ UNCHANGED queryVars

\* the sweep after `activeTournaments.delete(room)`: back in the loop
SweepDeleteDone ==
  [SweepAfterDelete(sweep, sweep.room) EXCEPT !.pc = "iter", !.room = "", !.tour = NoTour,
                                              !.evicted = @ + 1]

SweepGotChannel(ok) ==
  /\ running = NoOne
  /\ sweep.pc = "s_fetch"
  /\ IF ok
     THEN /\ audit' = NoteRetract(audit, sweep.tour.messageId)
          /\ sweep' = [sweep EXCEPT !.pc = "s_mfetch"]
          /\ running' = NoOne
          /\ UNCHANGED activeTournaments
     ELSE /\ audit' = NoteSwept(NoteRetract(audit, sweep.tour.messageId),
                                sweep.tour.messageId, sweep.now)
          /\ activeTournaments' = Deleted(sweep.room)
          /\ sweep' = SweepDeleteDone
          /\ running' = S
  /\ UNCHANGED <<currentRoom, messages, clock, handlers, delivered>>
  /\ UNCHANGED queryVars

SweepFetched(ok) ==
  /\ running = NoOne
  /\ sweep.pc = "s_mfetch"
  /\ MayFetch(sweep.tour.messageId, ok)
  /\ IF ok
     THEN /\ sweep' = [sweep EXCEPT !.pc = "s_del"]
          /\ running' = NoOne
          /\ UNCHANGED <<activeTournaments, audit>>
     ELSE /\ activeTournaments' = Deleted(sweep.room)
          /\ audit' = NoteSwept(audit, sweep.tour.messageId, sweep.now)
          /\ sweep' = SweepDeleteDone
          /\ running' = S
  /\ UNCHANGED <<currentRoom, messages, clock, handlers, delivered>>
  /\ UNCHANGED queryVars

SweepDeleted(ok) ==
  /\ running = NoOne
  /\ sweep.pc = "s_del"
  /\ MayDelete(sweep.tour.messageId, ok)
  /\ messages' = IF ok THEN [messages EXCEPT ![sweep.tour.messageId].live = FALSE]
                 ELSE messages
  /\ activeTournaments' = Deleted(sweep.room)
  /\ audit' = NoteSwept(audit, sweep.tour.messageId, sweep.now)
  /\ sweep' = SweepDeleteDone
  /\ running' = S
  /\ UNCHANGED <<currentRoom, clock, handlers, delivered>>
  /\ UNCHANGED queryVars

\* ------------------------------------------------------------ slash command
\* what an interaction is: not a chat input command, another command, or
\* /tournaments
Interactions == {"component", "other", "tournaments"}

\* [...activeTournaments.values()].map(t => `* **${t.name}** (${t.room})`)
Bullets(m) == [i \in 1..Len(m) |-> [name |-> m[i].value.name, room |-> m[i].value.room]]

\* Faulty variant: the reply is the fixed message whatever the registry holds
ReplyNoActive(m) == NoActive

\* the content handed to interaction.reply
ListReply(m) == IF Len(m) = 0 THEN NoActive ELSE [fixed |-> FALSE, bullets |-> Bullets(m)]

\* discord emits "interactionCreate": the callback runs up to its
\* `await interaction.reply(...)`, or returns at once.  The callback keeps
\* nothing after its await, so overlapping callbacks act as consecutive ones.
InteractionCreate(kind) ==
  /\ running = NoOne
  /\ interaction.pc = "idle"
  /\ interaction.asked < MaxQueries
  /\ interaction' =
       IF kind = "tournaments"
       THEN [pc |-> "reply", content |-> ListReply(activeTournaments),
             asked |-> interaction.asked + 1]
       ELSE [interaction EXCEPT !.asked = @ + 1]
  /\ UNCHANGED <<currentRoom, activeTournaments, messages, clock, handlers, sweep,
                 running, delivered, audit, escaped>>

\* `await interaction.reply(...)` returns, or throws: nothing catches it and
\* the callback's promise rejects
Replied(ok) ==
  /\ running = NoOne
  /\ interaction.pc = "reply"
  /\ interaction' = [interaction EXCEPT !.pc = "idle", !.content = NoReply]
  /\ escaped' = IF ok THEN escaped ELSE escaped + 1
  /\ UNCHANGED <<currentRoom, activeTournaments, messages, clock, handlers, sweep,
                 running, delivered, audit>>

\* ---------------------------------------------------------------- the clock
\* time passes between callbacks (a callback's synchronous run takes no time
\* on this scale)
Tick ==
  /\ running = NoOne
  /\ clock < MaxClock
  /\ clock' = clock + 1
  /\ UNCHANGED <<currentRoom, activeTournaments, messages, handlers, sweep, running,
                 delivered, audit>>
  /\ UNCHANGED queryVars

\* -------------------------------------------------------------------- Next
NextOver(frames) ==
  \/ \E h \in Handlers, f \in frames : Deliver(h, f)
  \/ \E h \in Handlers : Return(h)
  \/ \E h \in Handlers : SkipEmpty(h)
  \/ \E h \in Handlers : RoomContext(h)
  \/ \E h \in Handlers : TournamentCreated(h)
  \/ \E h \in Handlers : TournamentEnded(h)
  \/ \E h \in Handlers : ForceOrExpire(h)
  \/ \E h \in Handlers : Unclassified(h)
  \/ \E h \in Handlers, ok \in BOOLEAN : CreateGotChannel(h, ok)
  \/ \E h \in Handlers, ok \in BOOLEAN : CreateSent(h, ok)
  \/ \E h \in Handlers, ok \in BOOLEAN : EndGotChannel(h, ok)
  \/ \E h \in Handlers, ok \in BOOLEAN : EndSent(h, ok)
  \/ \E h \in Handlers, ok \in BOOLEAN : EndFetched(h, ok)
  \/ \E h \in Handlers, ok \in BOOLEAN : EndDeleted(h, ok)
  \/ \E h \in Handlers, ok \in BOOLEAN : ForceGotChannel(h, ok)
  \/ \E h \in Handlers, ok \in BOOLEAN : ForceFetched(h, ok)
  \/ \E h \in Handlers, ok \in BOOLEAN : ForceDeleted(h, ok)
  \/ SweepTick
  \/ SweepSkip
  \/ SweepStale
  \/ SweepReturn
  \/ \E ok \in BOOLEAN : SweepGotChannel(ok)
  \/ \E ok \in BOOLEAN : SweepFetched(ok)
  \/ \E ok \in BOOLEAN : SweepDeleted(ok)
  \/ Tick

Next == NextOver(Frames)

Spec == Init /\ [][Next]_vars

\* ----------------------------------------------------------------- liveness
\* A smaller feed, the same program: one line of each kind.
LiveFrames ==
  FramesOf({MarkerLine("ou"), MarkerLine("lobby")},
           {EmptyLine, ForceEndLine, EndLine("{}"),
            <<"", "tournament", "create", "gen9ou", "Elimination", "8", "Gen9OU Cup">>})

NextLive == NextOver(LiveFrames)

\* every step but the delivery of a frame and the clock: a callback that holds
\* the thread runs on, a pending Discord call returns or fails, the interval
\* timer fires
Progress ==
  \/ \E h \in Handlers : Return(h)
  \/ \E h \in Handlers : SkipEmpty(h)
  \/ \E h \in Handlers : RoomContext(h)
  \/ \E h \in Handlers : TournamentCreated(h)
  \/ \E h \in Handlers : TournamentEnded(h)
  \/ \E h \in Handlers : ForceOrExpire(h)
  \/ \E h \in Handlers : Unclassified(h)
  \/ \E h \in Handlers, ok \in BOOLEAN : CreateGotChannel(h, ok)
  \/ \E h \in Handlers, ok \in BOOLEAN : CreateSent(h, ok)
  \/ \E h \in Handlers, ok \in BOOLEAN : EndGotChannel(h, ok)
  \/ \E h \in Handlers, ok \in BOOLEAN : EndSent(h, ok)
  \/ \E h \in Handlers, ok \in BOOLEAN : EndFetched(h, ok)
  \/ \E h \in Handlers, ok \in BOOLEAN : EndDeleted(h, ok)
  \/ \E h \in Handlers, ok \in BOOLEAN : ForceGotChannel(h, ok)
  \/ \E h \in Handlers, ok \in BOOLEAN : ForceFetched(h, ok)
  \/ \E h \in Handlers, ok \in BOOLEAN : ForceDeleted(h, ok)
  \/ SweepSkip
  \/ SweepStale
  \/ SweepReturn
  \/ \E ok \in BOOLEAN : SweepGotChannel(ok)
  \/ \E ok \in BOOLEAN : SweepFetched(ok)
  \/ \E ok \in BOOLEAN : SweepDeleted(ok)

\* time advances, the sweeper keeps ticking, every call returns
Fairness ==
  /\ SF_vars(Tick)
  /\ SF_vars(SweepTick)
  /\ WF_vars(Progress)

SpecLive == Init /\ [][NextLive]_vars /\ Fairness

\* ------------------------------------------------------ with the list query
\* The same program and a smaller feed, with the slash command.
QueryFrames == LiveFrames

NextQuery ==
  \/ NextOver(QueryFrames)
  \/ \E kind \in Interactions : InteractionCreate(kind)
  \/ \E ok \in BOOLEAN : Replied(ok)

SpecQuery == Init /\ [][NextQuery]_vars

\* ======================================================================
\* Properties
\* ======================================================================
Ids == 1..Len(messages)

\* Map m holds the record of announcement id
HoldsId(m, id) == \E i \in 1..Len(m) : m[i].value.messageId = id
InRegistry(id) == HoldsId(activeTournaments, id)

\* handler h takes a step on a line of the given kind
AtCreate(h) ==
  /\ AtLine(h)
  /\ handlers'[h] /= handlers[h]
  /\ StartsWithCreate(Head(handlers[h].rest))
AtTermination(h) ==
  /\ AtLine(h)
  /\ handlers'[h] /= handlers[h]
  /\ \/ StartsWithEnd(Head(handlers[h].rest))
     \/ StartsWithForceOrExpire(Head(handlers[h].rest))

\* handler h goes on to the next line in this step, having called nothing
\* and changed nothing
LineIsNoOp(h) ==
  /\ handlers'[h].pc = "line"
  /\ handlers'[h].rest = Tail(handlers[h].rest)
  /\ running' = running
  /\ UNCHANGED <<currentRoom, activeTournaments, messages, audit>>

\* handler h's announce-open send succeeds in this step
AnnounceSent(h) ==
  /\ handlers[h].pc = "c_send"
  /\ Len(messages') = Len(messages) + 1

\* C1: an announce-open for a create line of room R is never sent while the
\* registry holds an entry for R, that is, an entry inserted since the line
\* passed the duplicate check and not removed since: one open announcement
\* per tracked tournament of a room.
C1_OneOpenPerTrackedTournament ==
  [][\A h \in Handlers :
       AnnounceSent(h) => ~Has(activeTournaments, handlers[h].lroom)]_vars

\* C2: a create line processed while the registry holds an entry for the
\* current room calls nothing and changes neither the registry nor the room
\* cursor; a create line goes on to announce only when there is no entry.
C2_DuplicateCreateIsNoOp ==
  [][\A h \in Handlers :
       /\ (AtCreate(h) /\ Truthy(currentRoom) /\ Has(activeTournaments, currentRoom))
             => LineIsNoOp(h)
       /\ (AtCreate(h) /\ handlers'[h].pc = "c_fetch")
             => ~Has(activeTournaments, currentRoom)]_vars

C2_Witness ==
  \E h \in Handlers :
    /\ handlers[h].last = "duplicate"
    /\ Has(activeTournaments, currentRoom)

\* C3: the room in the text of every open announcement, and the key and room
\* field of the record inserted for it, are the room cursor as it was when
\* the create line started being processed.
C3_RoomAttribution ==
  /\ \A id \in Ids : messages[id].room = audit[id].origin
  /\ \A i \in 1..Len(activeTournaments) :
       LET e == activeTournaments[i]
       IN /\ e.key = audit[e.value.messageId].origin
          /\ e.value.room = audit[e.value.messageId].origin

\* C4: once an end line that matched the record of an announcement has been
\* handled, the record is gone from the registry and exactly one end
\* notification and exactly one retraction of the announcement have been
\* attempted.
C4_RoundTrip ==
  \A id \in Ids :
    audit[id].ended >= 1 =>
      /\ ~InRegistry(id)
      /\ audit[id].summary + audit[id].finished = 1
      /\ audit[id].retracts = 1

C6_RecordsCarrySentIds ==
  /\ \A i \in 1..Len(activeTournaments) :
       LET v == activeTournaments[i].value
       IN /\ v.messageId \in Ids
          /\ messages[v.messageId].name = v.name
  /\ \A i, j \in 1..Len(activeTournaments) :
       activeTournaments[i].value.messageId = activeTournaments[j].value.messageId
         => i = j

C6_Witness ==
  \E h \in Handlers :
    /\ handlers[h].last = "announce-failed"
    /\ Truthy(currentRoom)
    /\ ~Has(activeTournaments, currentRoom)
    /\ Len(activeTournaments) > 0

\* the end branch of handler h runs to its last statement in this step
EndCompletes(h) ==
  /\ handlers[h].pc \in {"e_fetch", "e_mfetch", "e_del"}
  /\ handlers'[h].pc = "line"

\* C7: in the end branch the retraction is attempted whether or not the end
\* notification could be sent, and when the branch is over, whatever failed,
\* the entry it matched is no longer in the registry.
C7_EndAlwaysCleansUp ==
  [][\A h \in Handlers :
       /\ (handlers[h].pc = "e_send" /\ handlers'[h] /= handlers[h])
             => audit'[handlers[h].tour.messageId].retracts
                  = audit[handlers[h].tour.messageId].retracts + 1
       /\ EndCompletes(h) => ~HoldsId(activeTournaments', handlers[h].tour.messageId)]_vars

\* the payloads whose JSON holds a non-empty results sequence
WithResults == { "{\"results\":[[\"Alice\"],[\"Bob\"]]}" }

\* C8: the end notification sent for a matched end line is the result
\* summary exactly when the payload is JSON with a non-empty results
\* sequence, and the generic finished message otherwise (malformed JSON
\* included); the line's handling ends with the matched room's entry removed.
C8_ResultsDecideMessage ==
  [][\A h \in Handlers :
       /\ (handlers[h].pc = "e_fetch" /\ handlers'[h].pc = "e_send")
             => LET id == handlers[h].tour.messageId
                    n == IF handlers[h].line[4] \in WithResults THEN 1 ELSE 0
                IN /\ audit'[id].summary = audit[id].summary + n
                   /\ audit'[id].finished = audit[id].finished + (1 - n)
       /\ (handlers[h].pc \in {"e_fetch", "e_mfetch", "e_del"}
             /\ handlers'[h].last = "ended")
             => ~Has(activeTournaments', handlers[h].lroom)]_vars

\* the clock of the model goes far enough for the record of id to grow stale
CanGrowStale(id) ==
  \E i \in 1..Len(activeTournaments) :
    /\ activeTournaments[i].value.messageId = id
    /\ activeTournaments[i].value.startTime + MAX_TOURNAMENT_AGE <= MaxClock

\* the announcement ids a run can reach
AllIds == 1..(MaxFrames * MaxEvents)

\* C9: every record in the registry is eventually removed from it, given
\* that time advances until the record is stale, the sweeper keeps ticking
\* and every call returns.
C9_EveryRecordIsRemoved ==
  \A id \in AllIds : (id \in Ids /\ CanGrowStale(id)) ~> ~InRegistry(id)

\* a record that is stale and that no termination handler holds: only the
\* sweeper can remove it
C9_Witness ==
  \E i \in 1..Len(activeTournaments) :
    LET v == activeTournaments[i].value
    IN /\ IsStale(clock, v)
       /\ \A h \in Handlers : handlers[h].pc = "idle"
       /\ delivered = MaxFrames
       /\ sweep.pc = "idle"

\* some callback still holds the record of announcement id
Held(id) ==
  \/ \E h \in Handlers : handlers[h].tour.messageId = id
  \/ sweep.tour.messageId = id

\* C10: an open announcement that nothing tracks any more (no registry
\* record, no callback holding its record), and so can never be retracted
\* later, has had a retraction attempted.
C10_NoAnnouncementLingers ==
  \A id \in Ids : (~InRegistry(id) /\ ~Held(id)) => audit[id].retracts >= 1

\* no registry entry is stale at instant t
NoStaleAt(t) == \A i \in 1..Len(activeTournaments) : ~IsStale(t, activeTournaments[i].value)

\* the sweeper finds an entry stale in this step and calls getDiscordChannel
SweepCalls == sweep.pc = "iter" /\ sweep'.pc = "s_fetch"
\* the sweeper's call of getDiscordChannel returns in this step
SweepChannelReturns == sweep.pc = "s_fetch" /\ sweep'.pc /= "s_fetch"
\* the sweeper runs `activeTournaments.delete(room)` in this step
SweepEvicts == sweep.pc \in {"s_fetch", "s_mfetch", "s_del"} /\ sweep'.pc = "iter"
\* the sweeper moves in this step
SweepMoves ==
  \/ running = S /\ sweep' /= sweep
  \/ sweep.pc \in {"s_fetch", "s_mfetch", "s_del"} /\ sweep'.pc /= sweep.pc

\* some record was evicted by an earlier pass of the same instant
SweptBefore ==
  /\ sweep.evicted = 0
  /\ \E id \in Ids : audit[id].swept >= 1 /\ audit[id].sweptAt = sweep.now

\* A pass run again at the instant of a pass that ran to its end is a no-op:
\* a pass ends with no entry stale at its `now`; that stays so whatever is
\* created afterwards; a pass makes a call only for an entry stale at its
\* `now`, and none after an earlier pass of its instant.  The sweeper removes
\* nothing but the key it judged stale.
SweepIdempotent ==
  /\ (sweep.pc = "iter" /\ sweep'.pc = "idle") => NoStaleAt(sweep.now)
  /\ \A t \in 0..clock : NoStaleAt(t) => NoStaleAt(t)'
  /\ SweepCalls
        => /\ ~NoStaleAt(sweep.now)
           /\ IsStale(sweep.now, sweep'.tour)
           /\ ~SweptBefore
  /\ SweepMoves =>
        \/ activeTournaments' = activeTournaments /\ ~SweepEvicts
        \/ /\ SweepEvicts
           /\ activeTournaments' = MapDelete(activeTournaments, sweep.room)
  /\ (SweepMoves /\ ~SweepEvicts) => UNCHANGED messages

\* every eviction comes with one retraction attempt and one removal, and no
\* record is evicted twice
SweepRetractsOnce ==
  /\ \A id \in Ids :
        audit'[id].retracts =
          audit[id].retracts
            + (IF SweepChannelReturns /\ id = sweep.tour.messageId THEN 1 ELSE 0)
        \/ ~SweepMoves
  /\ SweepEvicts
        => /\ ~Has(activeTournaments', sweep.room)
           /\ audit[sweep.tour.messageId].swept = 0

\* C11: two sweep passes at one instant evict each stale entry once, with one
\* retraction attempt and one removal; the second pass calls nothing and
\* leaves the registry as it is; entries younger than MAX_TOURNAMENT_AGE
\* are left alone by both.
C11_SweepTwice == [][SweepIdempotent /\ SweepRetractsOnce]_vars

\* a second pass of the instant at which a record was evicted is about to
\* return: it has skipped the entries left, young ones created before that
\* instant, and made no call
C11_Witness ==
  /\ running = S
  /\ sweep.pc = "iter"
  /\ SweptBefore
  /\ Len(activeTournaments) >= 1
  /\ sweep.idx = Len(activeTournaments)
  /\ \A i \in 1..Len(activeTournaments) :
       activeTournaments[i].value.startTime < sweep.now

\* C12: when the sweeper comes back from a call made for a stale entry of
\* room R, its delete(R) removes nothing but the record it judged stale: an
\* entry of R that is in the registry by then and is another record (younger
\* than MAX_TOURNAMENT_AGE, from a fresh create) stays.
C12_SweeperRemovesWhatItJudged ==
  [][SweepEvicts =>
       \A i \in 1..Len(activeTournaments) :
         LET e == activeTournaments[i]
         IN \/ \E j \in 1..Len(activeTournaments') : activeTournaments'[j] = e
            \/ /\ e.value = sweep.tour
               /\ IsStale(sweep.now, e.value)]_vars

\* C13: no failure of a Discord call leaves its callback uncaught: a
\* rejected channel fetch, send, message fetch, message delete or reply is
\* caught where it happens, and the callback goes on or skips its line.
C13_NoSinkFailureEscapes == escaped = 0

\* field 6 of the create line when present and not empty, else the format
ExpectedName(l) == IF Len(l) >= 7 /\ l[7] /= "" THEN l[7] ELSE l[4]

\* C14: the name in the open announcement of a create line, and in the
\* record inserted for it, is field 6 of the line when that field is present
\* and not empty, and the format (field 3) otherwise.
C14_NameFallsBackToFormat ==
  [][\A h \in Handlers :
       AnnounceSent(h) =>
         /\ messages'[Len(messages')].name = ExpectedName(handlers[h].line)
         /\ \A i \in 1..Len(activeTournaments') :
              activeTournaments'[i].value.messageId = Len(messages')
                => activeTournaments'[i].value.name = ExpectedName(handlers[h].line)]_vars

\* C15: a create or termination line processed while the room cursor is
\* unset (null, or "" after an empty room marker) calls nothing and changes
\* nothing.
C15_UnsetCursorDropsEvents ==
  [][\A h \in Handlers :
       ((AtCreate(h) \/ AtTermination(h)) /\ ~Truthy(currentRoom)) => LineIsNoOp(h)]_vars

\* the list query is answered in this step
QueryAnswered == interaction.pc = "idle" /\ interaction'.pc = "reply"

\* C16: the list query leaves the registry as it is and answers from it as
\* it is then: the fixed message exactly when the registry is empty, else
\* one bullet `name (room)` per entry and no other; a room whose entry has
\* been removed has no bullet.
C16_ListAnswersFromRegistry ==
  [][/\ interaction' /= interaction => UNCHANGED activeTournaments
     /\ QueryAnswered =>
          LET reply == interaction'.content
          IN /\ reply.fixed <=> Len(activeTournaments) = 0
             /\ Len(reply.bullets) = Len(activeTournaments)
             /\ \A i \in 1..Len(activeTournaments) :
                  reply.bullets[i] = [name |-> activeTournaments[i].value.name,
                                      room |-> activeTournaments[i].key]
             /\ \A i \in 1..Len(reply.bullets) :
                  Has(activeTournaments, reply.bullets[i].room)]_vars

\* a query is answered with a list after the sweep has evicted the record of
\* a room that has no entry now
C16_Witness ==
  /\ interaction.pc = "reply"
  /\ Len(interaction.content.bullets) >= 1
  /\ interaction.content.bullets = Bullets(activeTournaments)
  /\ \E id \in Ids :
       /\ audit[id].swept >= 1
       /\ ~Has(activeTournaments, audit[id].origin)

\* a termination branch of handler h runs to its last statement in this step
TerminationCompletes(h) ==
  /\ handlers[h].pc \in {"e_fetch", "e_mfetch", "e_del", "f_fetch", "f_mfetch", "f_del"}
  /\ handlers'[h].pc = "line"

\* C17: when a termination branch is over, the entry it looked up when the
\* line started is out of the registry, and every other entry is still in it.
C17_RemovesExactlyTheMatchedEntry ==
  [][\A h \in Handlers :
       TerminationCompletes(h) =>
         /\ ~HoldsId(activeTournaments', handlers[h].tour.messageId)
         /\ \A i \in 1..Len(activeTournaments) :
              activeTournaments[i].value.messageId /= handlers[h].tour.messageId
                => \E j \in 1..Len(activeTournaments') :
                     activeTournaments'[j] = activeTournaments[i]]_vars

\* C18: a record in the registry is never replaced: in every step, a key
\* that is in the registry before and after has the same record.
C18_RecordsAreNeverReplaced ==
  [][\A i \in 1..Len(activeTournaments) :
       LET e == activeTournaments[i]
       IN Has(activeTournaments', e.key) => Get(activeTournaments', e.key) = e.value]_vars

\* C19: for every record, at most one end notification is ever sent.
C19_FinishedAtMostOnce == \A id \in Ids : audit[id].notified <= 1

\* handler h is in the forceend / expire branch and moves in this step
ForceMoves(h) ==
  /\ handlers[h].pc \in {"f_fetch", "f_mfetch", "f_del"}
  /\ handlers'[h] /= handlers[h]

\* C20: a forceend or expire line that matches an entry sets out to retract
\* the entry's announcement, sends no end notification, and when the branch
\* is over, whatever failed, the entry it matched is out of the registry.
C20_ForceEndRetractsAndRemoves ==
  [][\A h \in Handlers :
       /\ (AtTermination(h)
             /\ StartsWithForceOrExpire(Head(handlers[h].rest))
             /\ Has(activeTournaments, currentRoom))
            => /\ handlers'[h].pc = "f_fetch"
               /\ handlers'[h].tour = Get(activeTournaments, currentRoom)
       /\ (handlers[h].pc = "f_fetch" /\ ForceMoves(h))
            => audit'[handlers[h].tour.messageId].retracts
                 = audit[handlers[h].tour.messageId].retracts + 1
       /\ ForceMoves(h)
            => \A id \in Ids :
                 /\ audit'[id].summary = audit[id].summary
                 /\ audit'[id].finished = audit[id].finished
                 /\ audit'[id].notified = audit[id].notified
       /\ (ForceMoves(h) /\ handlers'[h].pc = "line")
            => ~HoldsId(activeTournaments', handlers[h].tour.messageId)]_vars

====
